---------------------------- MODULE Spec2Model ----------------------------
(***************************************************************************)
(* Model of mcp_starter.py: the supervisor router, the customer care       *)
(* agent, the web search agent and the in-memory escalation queue.         *)
(*                                                                         *)
(* Python strings on which the code computes (lower(), "in", startswith)   *)
(* are sequences of one-character strings; strings the code only stores    *)
(* or compares for equality (status, human_response, FAQ answers) are TLA+ *)
(* strings.  An Optional[str] argument is <<>> for None and <<s>> for the  *)
(* string s.  Non-ASCII decoration of the message texts is left out.       *)
(*                                                                         *)
(* The tools are coroutines on one asyncio event loop: a handler runs      *)
(* without interruption up to an await that really suspends.  The only     *)
(* such await on the supervisor's paths is the HTTP request of             *)
(* Fetch.duckduckgo_search_links, so a supervisor call that searches is    *)
(* two steps (supervisor, supervisor_resume) and every other call is one.  *)
(***************************************************************************)
EXTENDS Integers, Sequences, FiniteSets, TLC

VARIABLES ESCALATION_DB, NEXT_ESCALATION_ID, inflight, call, result

vars == <<ESCALATION_DB, NEXT_ESCALATION_ID, inflight, call, result>>

---------------------------------------------------------------------------
(* Bounds of the model *)

\* tickets the queue may hold before ticket-creating calls are cut off
MaxTickets == 2
\* supervisor calls that may await their search response at the same time
MaxInflight == 1

---------------------------------------------------------------------------
(* Python str operations *)

UpperToLower ==
    ("A" :> "a") @@ ("B" :> "b") @@ ("C" :> "c") @@ ("D" :> "d") @@
    ("E" :> "e") @@ ("F" :> "f") @@ ("G" :> "g") @@ ("H" :> "h") @@
    ("I" :> "i") @@ ("J" :> "j") @@ ("K" :> "k") @@ ("L" :> "l") @@
    ("M" :> "m") @@ ("N" :> "n") @@ ("O" :> "o") @@ ("P" :> "p") @@
    ("Q" :> "q") @@ ("R" :> "r") @@ ("S" :> "s") @@ ("T" :> "t") @@
    ("U" :> "u") @@ ("V" :> "v") @@ ("W" :> "w") @@ ("X" :> "x") @@
    ("Y" :> "y") @@ ("Z" :> "z")

\* str.lower()
Lower(s) ==
    [k \in 1..Len(s) |->
        IF s[k] \in DOMAIN UpperToLower THEN UpperToLower[s[k]] ELSE s[k]]

\* sub in s
Contains(sub, s) ==
    \E k \in 0..(Len(s) - Len(sub)) : SubSeq(s, k + 1, k + Len(sub)) = sub

\* s.startswith(pre)
StartsWith(s, pre) ==
    Len(pre) <= Len(s) /\ SubSeq(s, 1, Len(pre)) = pre

\* Optional[str]
None == <<>>
Some(s) == <<s>>
\* truth value of an Optional[str]: None and "" are false
Truthy(o) == o # None /\ o[1] # <<>>

\* the string literals of the code
S_search     == <<"s","e","a","r","c","h">>
S_web        == <<"w","e","b">>
S_find       == <<"f","i","n","d">>
S_look_for   == <<"l","o","o","k"," ","f","o","r">>
S_support    == <<"s","u","p","p","o","r","t">>
S_refund     == <<"r","e","f","u","n","d">>
S_tracking   == <<"t","r","a","c","k","i","n","g">>
S_cancel     == <<"c","a","n","c","e","l">>
S_warranty   == <<"w","a","r","r","a","n","t","y">>
S_duckduckgo == <<"d","u","c","k","d","u","c","k","g","o">>
S_ddg        == <<"d","d","g">>
S_http       == <<"h","t","t","p">>

\* error codes of mcp.types
INVALID_PARAMS == -32602
INTERNAL_ERROR == -32603

---------------------------------------------------------------------------
(* Values returned to the caller.  A text built by an f-string is its      *)
(* template (fmt) and the values interpolated into it (args); calls lists  *)
(* the agents and queue operations the handler invoked, in order.          *)

Ok(fmt, args, calls) ==
    [kind |-> "ok", code |-> 0, fmt |-> fmt, args |-> args, calls |-> calls]

\* raise McpError(ErrorData(code=code, message=fmt % args))
McpError(code, fmt, args, calls) ==
    [kind |-> "error", code |-> code, fmt |-> fmt, args |-> args, calls |-> calls]

\* the coroutine is suspended in its await; nothing is returned yet
Awaiting(calls) ==
    [kind |-> "awaiting", code |-> 0, fmt |-> "", args |-> <<>>, calls |-> calls]

---------------------------------------------------------------------------
(* The escalation queue *)

Init ==
    /\ ESCALATION_DB = <<>>
    /\ NEXT_ESCALATION_ID = 1
    /\ inflight = <<>>
    /\ call = [op |-> "start"]
    /\ result = Ok("", <<>>, <<>>)

\* the dict literal of the two callers of _push_escalation (no "id" key yet)
Item(query, priority) ==
    [query |-> query, from |-> "user", priority |-> priority,
     status |-> "open", human_response |-> None]

\* _push_escalation without the increment of the counter
push_escalation_NoIncrement(item) ==
    /\ ESCALATION_DB' = Append(ESCALATION_DB, [id |-> NEXT_ESCALATION_ID] @@ item)
    /\ NEXT_ESCALATION_ID' = NEXT_ESCALATION_ID

\* _push_escalation leaving a gap after every id
push_escalation_SkipId(item) ==
    /\ ESCALATION_DB' = Append(ESCALATION_DB, [id |-> NEXT_ESCALATION_ID] @@ item)
    /\ NEXT_ESCALATION_ID' = NEXT_ESCALATION_ID + 2

\* _push_escalation: the item gets the counter's value as its id, the counter
\* is incremented, the item is appended.  It returns the item, whose id is the
\* unprimed NEXT_ESCALATION_ID.
push_escalation(item) ==
    /\ ESCALATION_DB' = Append(ESCALATION_DB, [id |-> NEXT_ESCALATION_ID] @@ item)
    /\ NEXT_ESCALATION_ID' = NEXT_ESCALATION_ID + 1


\* the loop of respond_escalation: the position of the first ticket whose
\* id is ticket_id, 0 when the loop ends without a match
RECURSIVE ScanTickets(_, _)
ScanTickets(k, ticket_id) ==
    IF k > Len(ESCALATION_DB) THEN 0
    ELSE IF ESCALATION_DB[k].id = ticket_id THEN k
    ELSE ScanTickets(k + 1, ticket_id)

\* the lookup falling back on the last ticket when the loop finds none
FindTicket_OrLast(ticket_id) ==
    IF ScanTickets(1, ticket_id) = 0 THEN Len(ESCALATION_DB)
    ELSE ScanTickets(1, ticket_id)

FindTicket(ticket_id) == ScanTickets(1, ticket_id)

\* the assignments guarded by the ticket still being open
Resolve_OnlyOpen(e, human_response) ==
    IF e.status = "resolved" THEN e
    ELSE [e EXCEPT !.human_response = Some(human_response), !.status = "resolved"]

\* the assignment of the response without the one of the status
Resolve_NoStatus(e, human_response) ==
    [e EXCEPT !.human_response = Some(human_response)]

\* the assignments flipping the status of a ticket resolved before
Resolve_Toggle(e, human_response) ==
    [e EXCEPT !.human_response = Some(human_response),
              !.status = IF e.status = "resolved" THEN "open" ELSE "resolved"]

\* the assignments with one more, to the priority
Resolve_ResetPriority(e, human_response) ==
    [e EXCEPT !.human_response = Some(human_response), !.status = "resolved",
              !.priority = 1]

\* the two assignments of respond_escalation to the matching ticket
Resolve(e, human_response) ==
    [e EXCEPT !.human_response = Some(human_response), !.status = "resolved"]

\* the comprehension filtering only on the two statuses of the enum
Rows_EnumOnly(status) ==
    SelectSeq(ESCALATION_DB,
              LAMBDA e : IF status \in {Some("open"), Some("resolved")}
                         THEN e.status = status[1] ELSE TRUE)

\* the list comprehension of list_escalations
Rows(status) ==
    SelectSeq(ESCALATION_DB,
              LAMBDA e : IF status = None THEN TRUE ELSE e.status = status[1])

\* one rendered line: id=.. | priority=.. | status=.. | query=..
Line(e) ==
    [id |-> e.id, priority |-> e.priority, status |-> e.status, query |-> e.query]

---------------------------------------------------------------------------
(* Customer care agent *)

faq == <<
    [k |-> S_refund,   v |-> "Our refund policy: please request within 14 days"],
    [k |-> S_tracking, v |-> "To track your order use the tracking link emailed to you"],
    [k |-> S_cancel,   v |-> "Orders can be cancelled within 2 hours of purchase"],
    [k |-> S_warranty, v |-> "All electronics have a 1-year limited warranty"] >>

\* for k, v in faq.items(): if k in q_lower: return ...
\* the position in faq of the first key found in q_lower, 0 when none is
RECURSIVE FaqScan(_, _)
FaqScan(n, q_lower) ==
    IF n > Len(faq) THEN 0
    ELSE IF Contains(faq[n].k, q_lower) THEN n
    ELSE FaqScan(n + 1, q_lower)

\* the lookup in which the last matching key of faq wins
FaqLookup_LastKey(q_lower) ==
    LET matching == {n \in 1..Len(faq) : Contains(faq[n].k, q_lower)}
    IN  IF matching = {} THEN 0
        ELSE CHOOSE n \in matching : \A m \in matching : m <= n

FaqLookup(q_lower) == FaqScan(1, q_lower)

\* the escalated item with the priority of an urgent call
CareItem_Urgent(query) == Item(query, 5)

\* the item customer_care_agent escalates
CareItem(query) == Item(query, 3)

customer_care_agent(query) ==
    LET n == FaqLookup(Lower(query)) IN
    IF n # 0
    THEN /\ result' = Ok("Customer Care: {v}", <<faq[n].v>>, <<"customer_care_agent">>)
         /\ UNCHANGED <<ESCALATION_DB, NEXT_ESCALATION_ID>>
    ELSE /\ Len(ESCALATION_DB) < MaxTickets
         /\ push_escalation(CareItem(query))
         /\ result' = Ok("Customer Care: I've created an escalation (id={id})",
                         <<NEXT_ESCALATION_ID>>,
                         <<"customer_care_agent", "_push_escalation">>)

---------------------------------------------------------------------------
(* Search *)

S_search_failed ==
    <<"<","e","r","r","o","r",">","S","e","a","r","c","h"," ",
      "f","a","i","l","e","d","<","/","e","r","r","o","r",">">>
S_no_results ==
    <<"<","e","r","r","o","r",">","N","o"," ","r","e","s","u","l","t","s"," ",
      "f","o","u","n","d","<","/","e","r","r","o","r",">">>

\* what the GET of the results page comes to: httpx.HTTPError raised, or a
\* response with a status code whose page holds the hrefs of its
\* a.result__a anchors, in page order
HTTPError == [exc |-> TRUE, status_code |-> 0, anchors |-> <<>>]
Response(status_code, anchors) ==
    [exc |-> FALSE, status_code |-> status_code, anchors |-> anchors]

\* the for loop over the anchors, from anchor k on with links collected so far
RECURSIVE CollectLinks(_, _, _, _)
CollectLinks(anchors, k, links, max_results) ==
    IF k > Len(anchors) THEN links
    ELSE LET appended == IF StartsWith(anchors[k], S_http)
                         THEN Append(links, anchors[k]) ELSE links
         IN  IF Len(appended) >= max_results THEN appended
             ELSE CollectLinks(anchors, k + 1, appended, max_results)

\* the search returning the links as they are, without `or [...]`
duckduckgo_search_links_NoSentinel(resp, max_results) ==
    IF resp.exc THEN <<S_search_failed>>
    ELSE IF resp.status_code # 200 THEN <<S_search_failed>>
    ELSE CollectLinks(resp.anchors, 1, <<>>, max_results)

duckduckgo_search_links(resp, max_results) ==
    IF resp.exc THEN <<S_search_failed>>
    ELSE IF resp.status_code # 200 THEN <<S_search_failed>>
    ELSE LET links == CollectLinks(resp.anchors, 1, <<>>, max_results)
         IN  IF links = <<>> THEN <<S_no_results>> ELSE links

\* lst[:n]; a negative n counts from the end
Take(lst, n) ==
    SubSeq(lst, 1, IF n < 0 THEN Len(lst) + n
                   ELSE IF Len(lst) < n THEN Len(lst) ELSE n)

\* engine.lower() in ("duckduckgo", "ddg")
EngineSupported(engine) == Lower(engine) \in {S_duckduckgo, S_ddg}

\* the default taken only for None, an empty hint passed on as it is
EngineOrDefault_NoneOnly(search_engine) ==
    IF search_engine # None THEN search_engine[1] ELSE S_duckduckgo

\* search_engine or "duckduckgo"
EngineOrDefault(search_engine) ==
    IF Truthy(search_engine) THEN search_engine[1] ELSE S_duckduckgo

\* web_search_agent up to its await: the coroutine of the call c is suspended
\* in the GET, or the engine is refused
web_search_agent(c, engine) ==
    IF EngineSupported(engine)
    THEN /\ Len(inflight) < MaxInflight
         /\ inflight' = Append(inflight, c)
         /\ result' = Awaiting(<<"web_search_agent", "duckduckgo_search_links">>)
         /\ UNCHANGED <<ESCALATION_DB, NEXT_ESCALATION_ID>>
    ELSE /\ result' = McpError(INVALID_PARAMS, "Unsupported engine: {engine}",
                               <<engine>>, <<"web_search_agent">>)
         /\ UNCHANGED <<ESCALATION_DB, NEXT_ESCALATION_ID, inflight>>

---------------------------------------------------------------------------
(* Supervisor *)

\* the search condition of supervisor, on il and ql
SearchSignal(il, ql) ==
    \/ Contains(S_search, il)
    \/ il = S_web
    \/ il = S_search
    \/ Contains(S_find, ql)
    \/ Contains(S_look_for, ql)

\* the support condition of supervisor, on il and ql
SupportSignal(il, ql) ==
    \/ Contains(S_support, il)
    \/ il = S_support
    \/ Contains(S_refund, ql)
    \/ Contains(S_tracking, ql)
    \/ Contains(S_cancel, ql)

\* the branches with the threshold one too high
Route_AboveFive(query, intent, priority, search_engine) ==
    IF priority > 5 THEN "escalate"
    ELSE LET il == IF Truthy(intent) THEN Lower(intent[1]) ELSE <<>>
             ql == Lower(query)
         IN  IF SearchSignal(il, ql) THEN "search"
             ELSE IF SupportSignal(il, ql) THEN "support"
             ELSE "support"

\* the branches with the support condition tested before the search condition
Route_SupportFirst(query, intent, priority, search_engine) ==
    IF priority >= 5 THEN "escalate"
    ELSE LET il == IF Truthy(intent) THEN Lower(intent[1]) ELSE <<>>
             ql == Lower(query)
         IN  IF SupportSignal(il, ql) THEN "support"
             ELSE IF SearchSignal(il, ql) THEN "search"
             ELSE "support"

\* the branches with the urgent escalation kept for an empty queue
Route_Backlog(query, intent, priority, search_engine) ==
    IF priority >= 5 /\ Len(ESCALATION_DB) = 0 THEN "escalate"
    ELSE LET il == IF Truthy(intent) THEN Lower(intent[1]) ELSE <<>>
             ql == Lower(query)
         IN  IF SearchSignal(il, ql) THEN "search"
             ELSE IF SupportSignal(il, ql) THEN "support"
             ELSE "support"

\* the branch supervisor takes
Route(query, intent, priority, search_engine) ==
    IF priority >= 5 THEN "escalate"
    ELSE LET il == IF Truthy(intent) THEN Lower(intent[1]) ELSE <<>>
             ql == Lower(query)
         IN  IF SearchSignal(il, ql) THEN "search"
             ELSE IF SupportSignal(il, ql) THEN "support"
             ELSE "support"

SupervisorCall(query, intent, priority, search_engine) ==
    [op |-> "supervisor", query |-> query, intent |-> intent,
     priority |-> priority, search_engine |-> search_engine]

\* supervisor, up to its return or to the await of the search request
supervisor(query, intent, priority, search_engine) ==
    LET c == SupervisorCall(query, intent, priority, search_engine)
        route == Route(query, intent, priority, search_engine)
    IN  /\ call' = c
        /\ CASE route = "escalate" ->
                  /\ Len(ESCALATION_DB) < MaxTickets
                  /\ push_escalation(Item(query, priority))
                  /\ result' = Ok("Supervisor: Urgent issue, escalated with id={id}",
                                  <<NEXT_ESCALATION_ID>>, <<"_push_escalation">>)
                  /\ UNCHANGED inflight
             [] route = "search" ->
                  web_search_agent(c, EngineOrDefault(search_engine))
             [] route = "support" ->
                  /\ customer_care_agent(query)
                  /\ UNCHANGED inflight

\* the search response of the k-th suspended supervisor call arrives: the rest
\* of duckduckgo_search_links, of web_search_agent and of supervisor
supervisor_resume(k, resp) ==
    /\ k \in 1..Len(inflight)
    /\ LET c == inflight[k]
           links == duckduckgo_search_links(resp, 6)
       IN  /\ call' = c @@ [resp |-> resp]
           /\ result' = Ok("Web Search ({engine}) results for: {query} {results}",
                           <<EngineOrDefault(c.search_engine), c.query, Take(links, 4)>>,
                           <<"web_search_agent", "duckduckgo_search_links">>)
    /\ inflight' = SubSeq(inflight, 1, k - 1) \o SubSeq(inflight, k + 1, Len(inflight))
    /\ UNCHANGED <<ESCALATION_DB, NEXT_ESCALATION_ID>>

---------------------------------------------------------------------------
(* Tools of the human operator *)

list_escalations(status) ==
    /\ call' = [op |-> "list_escalations", status |-> status]
    /\ LET rows == Rows(status)
       IN  result' = IF rows = <<>>
                     THEN Ok("No escalations.", <<>>, <<>>)
                     ELSE Ok("{lines}", [k \in 1..Len(rows) |-> Line(rows[k])], <<>>)
    /\ UNCHANGED <<ESCALATION_DB, NEXT_ESCALATION_ID, inflight>>

\* prior is not an argument: it records what the call found, the ticket as
\* it was when the call arrived
respond_escalation(ticket_id, human_response) ==
    LET k == FindTicket(ticket_id) IN
    /\ call' = [op |-> "respond_escalation", ticket_id |-> ticket_id,
                human_response |-> human_response,
                prior |-> IF k = 0 THEN <<>> ELSE <<ESCALATION_DB[k]>>]
    /\ IF k # 0
       THEN /\ ESCALATION_DB' =
                  [ESCALATION_DB EXCEPT ![k] = Resolve(@, human_response)]
            /\ result' = Ok("Escalation id={ticket_id} marked resolved. Human response: {human_response}",
                            <<ticket_id, human_response>>, <<>>)
       ELSE /\ result' = McpError(INVALID_PARAMS, "Ticket id {ticket_id} not found.",
                                  <<ticket_id>>, <<>>)
            /\ UNCHANGED ESCALATION_DB
    /\ UNCHANGED <<NEXT_ESCALATION_ID, inflight>>

validate ==
    /\ call' = [op |-> "validate"]
    /\ result' = Ok("MY_NUMBER", <<>>, <<>>)
    /\ UNCHANGED <<ESCALATION_DB, NEXT_ESCALATION_ID, inflight>>

---------------------------------------------------------------------------
(* Inputs *)

Q_find_refund     == <<"F","i","n","d"," ">> \o S_refund
Q_tracking_refund == S_tracking \o <<" ","R","E","F","U","N","D">>
Q_refund_tracking == S_refund \o <<" ">> \o S_tracking
Q_look_for        == <<"L","o","o","k"," ","f","o","r"," ","x">>
Q_warranty_cancel == S_warranty \o <<" ">> \o S_cancel
Q_hi              == <<"h","i">>

Queries == {Q_find_refund, Q_tracking_refund, Q_refund_tracking,
            Q_warranty_cancel, S_warranty, Q_look_for, Q_hi}

Intents == {None, Some(<<"W","e","b">>), Some(<<"a"," ">> \o S_search),
            Some(<<"S","u","p","p","o","r","t">>)}

Engines == {None, Some(<<>>), Some(<<"D","D","G">>), Some(<<"b","i","n","g">>)}

StatusFilters == {None, Some("open"), Some("resolved"), Some("closed")}

HumanResponses == {"", "refunded"}

A_http1 == S_http \o <<":","1">>
A_http2 == S_http \o <<"s",":","2">>
A_rel   == <<"/","l","/","?","u">>

SearchResponses ==
    {HTTPError, Response(503, <<A_http1>>), Response(200, <<A_rel>>),
     Response(200, <<A_rel, A_http1, A_http2, A_http1, A_http2, A_http1>>)}

TicketIds == 1..(MaxTickets + 1)

\* the supervisor calls of Spec: the three routes, with and without a ticket
QueueCalls ==
    ({Q_find_refund, Q_hi} \X {None} \X {4, 6} \X {None})
    \cup {<<S_warranty, None, 4, None>>}

\* the supervisor calls of SpecRoute: every query with every intent hint on
\* both sides of the priority threshold, and every engine hint on calls of
\* each route
RouteCalls ==
    (Queries \X Intents \X {4, 5} \X {None})
    \cup ({Q_find_refund, Q_hi} \X {None, Some(<<"W","e","b">>)} \X {4, 5} \X Engines)
    \cup ({Q_hi, S_warranty} \X {None} \X {1} \X {None})

---------------------------------------------------------------------------
(* Specifications *)

\* concurrent callers of all tools
Next ==
    \/ \E a \in QueueCalls : supervisor(a[1], a[2], a[3], a[4])
    \/ \E k \in 1..MaxInflight, r \in SearchResponses : supervisor_resume(k, r)
    \/ \E s \in StatusFilters : list_escalations(s)
    \/ \E t \in TicketIds, h \in HumanResponses : respond_escalation(t, h)
    \/ validate

Spec == Init /\ [][Next]_vars

\* one caller of supervisor who waits for each answer before the next call
NextRoute ==
    \/ \E a \in RouteCalls : inflight = <<>> /\ supervisor(a[1], a[2], a[3], a[4])
    \/ \E r \in SearchResponses : supervisor_resume(1, r)

SpecRoute == Init /\ [][NextRoute]_vars

---------------------------------------------------------------------------
(* Fetch.fetch_url, Fetch.extract_content_from_html and summarize_url.     *)
(* Neither reads or writes the queue, so a call is pending from the start  *)
(* (suspended in `await client.get`) and one step takes it from the        *)
(* response of its request to its return.                                  *)

S_error_tag == <<"<","e","r","r","o","r",">">>
S_simplify_failed ==
    S_error_tag \o <<"F","a","i","l","e","d"," ","t","o"," ","s","i","m","p","l","i","f","y"," ","p","a","g","e">> \o
    <<"<","/","e","r","r","o","r",">">>
S_text_html == <<"t","e","x","t","/","h","t","m","l">>
S_raw_note ==
    <<"R","a","w"," ","c","o","n","t","e","n","t"," ","w","i","t","h"," ">> \o
    <<"c","o","n","t","e","n","t","-","t","y","p","e",":"," ">>
S_sep == <<".", " ">>

\* the characters str.strip() removes
Whitespace == {" ", "\n", "\t"}

\* what the GET of the page comes to: httpx.HTTPError raised, or a response
\* with its status code, its content-type header (empty when absent), its
\* text, and what readabilipy and markdownify make of that text: None when
\* they raise or find no content, the markdown otherwise
PageError ==
    [exc |-> TRUE, status_code |-> 0, content_type |-> <<>>, text |-> <<>>,
     readable |-> None]
Page(status_code, content_type, text, readable) ==
    [exc |-> FALSE, status_code |-> status_code, content_type |-> content_type,
     text |-> text, readable |-> readable]

extract_content_from_html(readable) ==
    IF readable = None THEN S_simplify_failed ELSE readable[1]

\* fetch_url taking a page for HTML only when the header is "text/html" alone
fetch_url_ExactType(resp, force_raw) ==
    IF resp.exc
    THEN McpError(INTERNAL_ERROR, "Failed to fetch {url}: {e!r}", <<>>, <<>>)
    ELSE IF resp.status_code >= 400
    THEN McpError(INTERNAL_ERROR, "Failed to fetch {url} - status {status_code}",
                  <<resp.status_code>>, <<>>)
    ELSE LET is_html == resp.content_type = S_text_html
         IN  IF is_html /\ ~force_raw
             THEN Ok("FetchResult",
                     <<extract_content_from_html(resp.readable), <<>>>>,
                     <<"extract_content_from_html">>)
             ELSE Ok("FetchResult",
                     <<resp.text, S_raw_note \o resp.content_type \o <<"\n">>>>,
                     <<>>)

\* Fetch.fetch_url from the response on: the McpError raised, or the pair
\* (body, note) as the args of a result
fetch_url(resp, force_raw) ==
    IF resp.exc
    THEN McpError(INTERNAL_ERROR, "Failed to fetch {url}: {e!r}", <<>>, <<>>)
    ELSE IF resp.status_code >= 400
    THEN McpError(INTERNAL_ERROR, "Failed to fetch {url} - status {status_code}",
                  <<resp.status_code>>, <<>>)
    ELSE LET is_html == Contains(S_text_html, resp.content_type)
         IN  IF is_html /\ ~force_raw
             THEN Ok("FetchResult",
                     <<extract_content_from_html(resp.readable), <<>>>>,
                     <<"extract_content_from_html">>)
             ELSE Ok("FetchResult",
                     <<resp.text, S_raw_note \o resp.content_type \o <<"\n">>>>,
                     <<>>)

\* content.replace("\n", " ")
RECURSIVE ReplaceNewlines(_)
ReplaceNewlines(s) ==
    IF s = <<>> THEN <<>>
    ELSE <<IF Head(s) = "\n" THEN " " ELSE Head(s)>> \o ReplaceNewlines(Tail(s))

\* s.strip()
RECURSIVE LStrip(_)
LStrip(s) ==
    IF s # <<>> /\ Head(s) \in Whitespace THEN LStrip(Tail(s)) ELSE s
RECURSIVE RStrip(_)
RStrip(s) ==
    IF s # <<>> /\ s[Len(s)] \in Whitespace
    THEN RStrip(SubSeq(s, 1, Len(s) - 1)) ELSE s
Strip(s) == RStrip(LStrip(s))

\* s.split(sep): cut at the occurrences of sep from the left, empty pieces kept
RECURSIVE Split(_, _)
Split(s, sep) ==
    IF ~Contains(sep, s) THEN <<s>>
    ELSE LET at(k) == SubSeq(s, k, k + Len(sep) - 1) = sep
             k == CHOOSE k \in 1..(Len(s) - Len(sep) + 1) :
                     at(k) /\ \A j \in 1..(k - 1) : ~at(j)
         IN  <<SubSeq(s, 1, k - 1)>> \o Split(SubSeq(s, k + Len(sep), Len(s)), sep)

\* sep.join(lst)
RECURSIVE Join(_, _)
Join(lst, sep) ==
    IF lst = <<>> THEN <<>>
    ELSE IF Len(lst) = 1 THEN lst[1]
    ELSE lst[1] \o sep \o Join(Tail(lst), sep)

\* [s.strip() for s in pieces if s.strip()]
RECURSIVE StripNonEmpty(_)
StripNonEmpty(pieces) ==
    IF pieces = <<>> THEN <<>>
    ELSE (IF Strip(Head(pieces)) # <<>> THEN <<Strip(Head(pieces))>> ELSE <<>>)
         \o StripNonEmpty(Tail(pieces))

\* sentences_list of summarize_url
SentencesList(content) ==
    StripNonEmpty(Split(Strip(ReplaceNewlines(content)), S_sep))

\* the return expression with > for >=
Summarize_Greater(content, sentences) ==
    LET sentences_list == SentencesList(content)
    IN  Join(Take(sentences_list, sentences), S_sep)
        \o (IF Len(sentences_list) > sentences THEN <<".">> ELSE <<>>)

\* the return expression of summarize_url
Summarize(content, sentences) ==
    LET sentences_list == SentencesList(content)
    IN  Join(Take(sentences_list, sentences), S_sep)
        \o (IF Len(sentences_list) >= sentences THEN <<".">> ELSE <<>>)

\* summarize_url without its test of the content
summarize_url_NoSentinelCheck(resp, sentences) ==
    LET r == fetch_url(resp, FALSE)
    IN  IF r.kind = "error" THEN r
        ELSE Ok("{summary}", <<Summarize(r.args[1], sentences)>>,
                <<"Fetch.fetch_url">>)

\* summarize_url from the response on
summarize_url(resp, sentences) ==
    LET r == fetch_url(resp, FALSE)
    IN  IF r.kind = "error" THEN r
        ELSE IF StartsWith(r.args[1], S_error_tag)
        THEN McpError(INTERNAL_ERROR, "Failed to fetch content.", <<>>,
                      <<"Fetch.fetch_url">>)
        ELSE Ok("{summary}", <<Summarize(r.args[1], sentences)>>,
                <<"Fetch.fetch_url">>)

\* a call of Fetch.fetch_url returns or raises
FetchReturns ==
    /\ call.op = "fetch_url"
    /\ result.kind = "awaiting"
    /\ result' = fetch_url(call.resp, call.force_raw)
    /\ UNCHANGED <<ESCALATION_DB, NEXT_ESCALATION_ID, inflight, call>>

\* a call of summarize_url returns or raises
SummarizeReturns ==
    /\ call.op = "summarize_url"
    /\ result.kind = "awaiting"
    /\ result' = summarize_url(call.resp, call.sentences)
    /\ UNCHANGED <<ESCALATION_DB, NEXT_ESCALATION_ID, inflight, call>>

\* a call of Fetch.duckduckgo_search_links returns its list
SearchReturns ==
    /\ call.op = "duckduckgo_search_links"
    /\ result.kind = "awaiting"
    /\ result' = Ok("{links}",
                    <<duckduckgo_search_links(call.resp, call.max_results)>>, <<>>)
    /\ UNCHANGED <<ESCALATION_DB, NEXT_ESCALATION_ID, inflight, call>>

\* bounds of the inputs
MaxTextLen == 6
MaxAnchors == 3
MaxResults == 3

\* every text of at most n characters of the alphabet
SummAlphabet == {"a", ".", " ", "\n"}
RECURSIVE TextsUpTo(_)
TextsUpTo(n) ==
    IF n = 0 THEN {<<>>}
    ELSE LET shorter == TextsUpTo(n - 1)
         IN  shorter \cup {Append(t, ch) : t \in shorter, ch \in SummAlphabet}
Texts == TextsUpTo(MaxTextLen)

SentenceCounts == {-1, 0, 1, 2, 3}

CT_html == S_text_html
CT_html_charset == S_text_html \o <<";"," ","c","h","a","r","s","e","t","=","u","t","f","-","8">>
CT_upper == <<"T","E","X","T","/","H","T","M","L">>
CT_plain == <<"t","e","x","t","/","p","l","a","i","n">>
ContentTypes == {CT_html, CT_html_charset, CT_upper, CT_plain, <<>>}

T_article == <<"<","p",">","a","."," ","a","<","/","p",">">>
T_markdown == <<"a","."," ","a","."," ","a","."," ","a">>
T_error_raw == S_error_tag \o <<"x",".">>

FetchPages ==
    {PageError}
    \cup {Page(st, ct, tx, rd) : st \in {200, 399, 400, 404, 500},
                                 ct \in ContentTypes,
                                 tx \in {<<>>, T_article, T_error_raw},
                                 rd \in {None, Some(T_markdown)}}

FetchCalls ==
    {[op |-> "fetch_url", resp |-> p, force_raw |-> f] :
        p \in FetchPages, f \in BOOLEAN}

SummarizeCalls ==
    {[op |-> "summarize_url", sentences |-> n,
      resp |-> Page(200, CT_html_charset, T_article, Some(t))] :
        t \in Texts, n \in SentenceCounts}
    \cup {[op |-> "summarize_url", sentences |-> 3, resp |-> p] : p \in FetchPages}

\* every list of at most n anchors
Anchors == {A_http1, A_http2, A_rel}
RECURSIVE AnchorsUpTo(_)
AnchorsUpTo(n) ==
    IF n = 0 THEN {<<>>}
    ELSE LET shorter == AnchorsUpTo(n - 1)
         IN  shorter \cup {Append(l, a) : l \in shorter, a \in Anchors}

ResultPages ==
    {HTTPError, Response(202, <<A_http1>>), Response(503, <<A_http1>>)}
    \cup {Response(200, l) : l \in AnchorsUpTo(MaxAnchors)}

SearchCalls ==
    {[op |-> "duckduckgo_search_links", resp |-> r, max_results |-> m] :
        r \in ResultPages, m \in 0..MaxResults}

InitFetch ==
    /\ ESCALATION_DB = <<>>
    /\ NEXT_ESCALATION_ID = 1
    /\ inflight = <<>>
    /\ call \in FetchCalls \cup SummarizeCalls \cup SearchCalls
    /\ result = Awaiting(<<>>)

NextFetch ==
    \/ FetchReturns
    \/ SummarizeReturns
    \/ SearchReturns

SpecFetch == InitFetch /\ [][NextFetch]_vars

---------------------------------------------------------------------------
(* Claims about the escalation queue, under Spec *)

\* C1: whatever the interleaving of the ticket creations of supervisor
\* (priority >= 5) and of customer_care_agent (no FAQ key matched), the ids of
\* the tickets of ESCALATION_DB are pairwise distinct, strictly increasing in
\* the order of the collection, and exactly 1..N for the N tickets created.
C1_IdsConsecutive ==
    LET N == Len(ESCALATION_DB) IN
    /\ \A j, k \in 1..N : j # k => ESCALATION_DB[j].id # ESCALATION_DB[k].id
    /\ \A j, k \in 1..N : j < k => ESCALATION_DB[j].id < ESCALATION_DB[k].id
    /\ {ESCALATION_DB[k].id : k \in 1..N} = 1..N

\* a supervisor escalation has just added a second ticket, after one of
\* customer_care_agent, while another supervisor call awaits its search
C1_Witness ==
    /\ call.op = "supervisor" /\ call.priority >= 5
    /\ result.calls = <<"_push_escalation">>
    /\ inflight # <<>>
    /\ Len(ESCALATION_DB) = 2
    /\ ESCALATION_DB[1].priority = 3

\* the kinds of error the specification tells apart, by error code
ErrorKind(code) ==
    CASE code = INVALID_PARAMS -> "InvalidParams"
      [] code = INTERNAL_ERROR -> "Internal"
      [] OTHER -> "Unknown"

\* respond_escalation is called with an id no ticket of the queue has
C2_UnknownId ==
    /\ call'.op = "respond_escalation"
    /\ \A k \in 1..Len(ESCALATION_DB) : ESCALATION_DB[k].id # call'.ticket_id

\* C2 as stated: respond_escalation with an id no ticket has fails with an
\* error of kind NotFound naming the id and leaves queue and counter unchanged.
C2_Original ==
    [][C2_UnknownId =>
          /\ result'.kind = "error"
          /\ ErrorKind(result'.code) = "NotFound"
          /\ result'.args = <<call'.ticket_id>>
          /\ UNCHANGED <<ESCALATION_DB, NEXT_ESCALATION_ID>>]_vars

\* C2, amended: respond_escalation with an id no ticket has fails with an
\* McpError of code INVALID_PARAMS whose message "Ticket id <id> not found."
\* names the id, and leaves queue and counter unchanged.
C2_UnknownIdInvalidParams ==
    [][C2_UnknownId =>
          /\ result'.kind = "error"
          /\ result'.code = INVALID_PARAMS
          /\ result'.fmt = "Ticket id {ticket_id} not found."
          /\ result'.args = <<call'.ticket_id>>
          /\ UNCHANGED <<ESCALATION_DB, NEXT_ESCALATION_ID>>]_vars

\* respond_escalation has failed on a queue that holds tickets
C2_Witness ==
    /\ call.op = "respond_escalation"
    /\ call.prior = <<>>
    /\ result.kind = "error"
    /\ Len(ESCALATION_DB) = 2

\* C3: respond_escalation on an id of the queue succeeds and leaves that ticket
\* resolved with the human_response of the call, also when the ticket was
\* resolved before: the text of the latest call replaces the earlier one.
C3_ResolveOverwrites ==
    [][\A k \in 1..Len(ESCALATION_DB) :
          (call'.op = "respond_escalation" /\ ESCALATION_DB[k].id = call'.ticket_id)
          => /\ result'.kind = "ok"
             /\ result'.args = <<call'.ticket_id, call'.human_response>>
             /\ ESCALATION_DB'[k].id = call'.ticket_id
             /\ ESCALATION_DB'[k].status = "resolved"
             /\ ESCALATION_DB'[k].human_response = Some(call'.human_response)]_vars

\* a ticket resolved with one text has been resolved again with another
C3_Witness ==
    /\ call.op = "respond_escalation"
    /\ call.prior # <<>>
    /\ call.prior[1].status = "resolved"
    /\ call.prior[1].human_response # Some(call.human_response)
    /\ result.kind = "ok"
    /\ \E k \in 1..Len(ESCALATION_DB) :
          /\ ESCALATION_DB[k].id = call.ticket_id
          /\ ESCALATION_DB[k].human_response = Some(call.human_response)

\* the positions of the tickets list_escalations(status) is to show
C4_Matching(status) ==
    {k \in 1..Len(ESCALATION_DB) :
        status = None \/ Some(ESCALATION_DB[k].status) = status}

\* C4: list_escalations(status) renders one line per ticket whose status is
\* the filter string (every ticket when the filter is None), in the order of
\* creation; a filter outside {open, resolved} is no error and yields
\* "No escalations.".
C4_ListExactSubset ==
    call.op = "list_escalations" =>
        LET want == C4_Matching(call.status) IN
        /\ result.kind = "ok"
        /\ want = {} <=> result.fmt = "No escalations."
        /\ call.status \notin {None, Some("open"), Some("resolved")}
              => result.fmt = "No escalations."
        /\ want # {} =>
              /\ result.fmt = "{lines}"
              /\ Len(result.args) = Cardinality(want)
              /\ \E pos \in [1..Len(result.args) -> want] :
                    /\ \A i, j \in 1..Len(result.args) : i < j => pos[i] < pos[j]
                    /\ \A i \in 1..Len(result.args) :
                          /\ result.args[i].id = ESCALATION_DB[pos[i]].id
                          /\ result.args[i].priority = ESCALATION_DB[pos[i]].priority
                          /\ result.args[i].status = ESCALATION_DB[pos[i]].status
                          /\ result.args[i].query = ESCALATION_DB[pos[i]].query

\* the resolved ticket alone, the second of two, has been listed
C4_Witness ==
    /\ call.op = "list_escalations"
    /\ call.status = Some("resolved")
    /\ Len(ESCALATION_DB) = 2
    /\ ESCALATION_DB[1].status = "open"
    /\ ESCALATION_DB[2].status = "resolved"
    /\ result.fmt = "{lines}"
    /\ Len(result.args) = 1
    /\ result.args[1].id = 2

\* C10: for every ticket of the queue, in every state, human_response is None
\* exactly when the status is open and is set exactly when it is resolved.
C10_ResponseIffResolved ==
    \A k \in 1..Len(ESCALATION_DB) :
       /\ ESCALATION_DB[k].status \in {"open", "resolved"}
       /\ ESCALATION_DB[k].human_response = None <=> ESCALATION_DB[k].status = "open"
       /\ ESCALATION_DB[k].human_response # None <=> ESCALATION_DB[k].status = "resolved"

\* an open ticket beside one resolved with the empty text
C10_Witness ==
    /\ Len(ESCALATION_DB) = 2
    /\ ESCALATION_DB[1].status = "resolved"
    /\ ESCALATION_DB[1].human_response = Some("")
    /\ ESCALATION_DB[2].status = "open"
    /\ ESCALATION_DB[2].human_response = None

\* C11: every ticket enters the queue open, and a resolved ticket is still in
\* the queue and still resolved after every step of supervisor,
\* list_escalations, respond_escalation and validate.
C11_ResolvedStaysResolved ==
    [][/\ \A k \in 1..Len(ESCALATION_DB) :
             ESCALATION_DB[k].status = "resolved"
             => /\ k <= Len(ESCALATION_DB')
                /\ ESCALATION_DB'[k].id = ESCALATION_DB[k].id
                /\ ESCALATION_DB'[k].status = "resolved"
       /\ \A k \in (Len(ESCALATION_DB) + 1)..Len(ESCALATION_DB') :
             ESCALATION_DB'[k].status = "open"]_vars

\* a ticket resolved before has been answered once more and is resolved
C11_Witness ==
    /\ call.op = "respond_escalation"
    /\ call.prior # <<>>
    /\ call.prior[1].status = "resolved"
    /\ result.kind = "ok"
    /\ \E k \in 1..Len(ESCALATION_DB) :
          /\ ESCALATION_DB[k].id = call.ticket_id
          /\ ESCALATION_DB[k].status = "resolved"

\* C12: every ticket of the queue has a priority in 1..5, whatever priority
\* supervisor was called with.
C12_PriorityInRange ==
    \A k \in 1..Len(ESCALATION_DB) : ESCALATION_DB[k].priority \in 1..5

\* C19: a respond_escalation that succeeds changes the status and the
\* human_response of the ticket with the id and nothing else: not the other
\* tickets, not that ticket's id, query, origin and priority, not the order or
\* the length of the queue, not the counter; one that fails, list_escalations
\* and validate change nothing; a supervisor step changes no ticket that was
\* in the queue.
C19_Frame ==
    [][/\ call'.op = "respond_escalation" =>
             /\ Len(ESCALATION_DB') = Len(ESCALATION_DB)
             /\ NEXT_ESCALATION_ID' = NEXT_ESCALATION_ID
             /\ \A k \in 1..Len(ESCALATION_DB) :
                   IF result'.kind = "ok" /\ ESCALATION_DB[k].id = call'.ticket_id
                   THEN /\ ESCALATION_DB'[k].id = ESCALATION_DB[k].id
                        /\ ESCALATION_DB'[k].query = ESCALATION_DB[k].query
                        /\ ESCALATION_DB'[k].from = ESCALATION_DB[k].from
                        /\ ESCALATION_DB'[k].priority = ESCALATION_DB[k].priority
                   ELSE ESCALATION_DB'[k] = ESCALATION_DB[k]
       /\ call'.op \in {"list_escalations", "validate"} =>
             UNCHANGED <<ESCALATION_DB, NEXT_ESCALATION_ID>>
       /\ call'.op = "supervisor" =>
             /\ Len(ESCALATION_DB') >= Len(ESCALATION_DB)
             /\ SubSeq(ESCALATION_DB', 1, Len(ESCALATION_DB)) = ESCALATION_DB]_vars

\* the first of two tickets has been resolved beside a second one that was
\* resolved with another text
C19_Witness ==
    /\ call.op = "respond_escalation"
    /\ call.ticket_id = 1
    /\ result.kind = "ok"
    /\ Len(ESCALATION_DB) = 2
    /\ ESCALATION_DB[1].human_response = Some(call.human_response)
    /\ ESCALATION_DB[2].status = "resolved"
    /\ ESCALATION_DB[2].human_response # Some(call.human_response)

\* a supervisor step that returns on an escalation path: priority >= 5, or the
\* customer care agent reached with no FAQ key in the query
C20_Escalates(c) ==
    /\ c.op = "supervisor"
    /\ \/ c.priority >= 5
       \/ /\ result'.calls # <<>>
          /\ result'.calls[1] = "customer_care_agent"
          /\ \A n \in 1..Len(faq) : ~Contains(faq[n].k, Lower(c.query))

\* C20: the queue grows by one ticket with every supervisor call that takes an
\* escalation path and never changes its length otherwise (calls that search
\* or are answered from the FAQ, list_escalations, respond_escalation,
\* validate), and NEXT_ESCALATION_ID is the number of tickets plus 1.
C20_GrowsByEscalations ==
    /\ [](NEXT_ESCALATION_ID = Len(ESCALATION_DB) + 1)
    /\ [][IF C20_Escalates(call')
          THEN Len(ESCALATION_DB') = Len(ESCALATION_DB) + 1
          ELSE Len(ESCALATION_DB') = Len(ESCALATION_DB)]_vars

\* two tickets from the two escalation paths, and the last call answered
\* from the FAQ without adding one
C20_Witness ==
    /\ Len(ESCALATION_DB) = 2
    /\ NEXT_ESCALATION_ID = 3
    /\ ESCALATION_DB[1].priority = 3
    /\ ESCALATION_DB[2].priority = 6
    /\ call.op = "supervisor"
    /\ call.query = S_warranty
    /\ result.fmt = "Customer Care: {v}"

---------------------------------------------------------------------------
(* Claims about the routing of supervisor, under SpecRoute *)

\* the ticket a call creates: one more ticket at the end of the queue, open,
\* with no response, the counter's value as id, and the counter incremented
CreatesTicket(query, priority) ==
    /\ Len(ESCALATION_DB') = Len(ESCALATION_DB) + 1
    /\ SubSeq(ESCALATION_DB', 1, Len(ESCALATION_DB)) = ESCALATION_DB
    /\ LET t == ESCALATION_DB'[Len(ESCALATION_DB')]
       IN  /\ t.query = query
           /\ t.priority = priority
           /\ t.status = "open"
           /\ t.human_response = None
           /\ t.from = "user"
           /\ t.id = NEXT_ESCALATION_ID
    /\ NEXT_ESCALATION_ID' = NEXT_ESCALATION_ID + 1

\* C5: a supervisor call with priority >= 5 creates exactly one open ticket
\* with the call's query and priority and returns the acknowledgment with that
\* ticket's id, whatever the query, intent and engine hint; neither the web
\* search agent nor the customer care agent is invoked.
C5_UrgentEscalates ==
    [][(call'.op = "supervisor" /\ call'.priority >= 5)
          => /\ CreatesTicket(call'.query, call'.priority)
             /\ result'.kind = "ok"
             /\ result'.fmt = "Supervisor: Urgent issue, escalated with id={id}"
             /\ result'.args = <<ESCALATION_DB'[Len(ESCALATION_DB')].id>>
             /\ \A n \in 1..Len(result'.calls) :
                   result'.calls[n] \notin {"web_search_agent", "customer_care_agent",
                                            "duckduckgo_search_links"}
             /\ inflight' = inflight]_vars

\* an urgent call whose query holds a search and an FAQ keyword, with a search
\* intent and an unsupported engine, has added the second ticket
C5_Witness ==
    /\ call.op = "supervisor"
    /\ call.priority = 5
    /\ call.query = Q_find_refund
    /\ call.intent = Some(<<"W","e","b">>)
    /\ call.search_engine = Some(<<"b","i","n","g">>)
    /\ Len(ESCALATION_DB) = 2
    /\ ESCALATION_DB[2].query = Q_find_refund
    /\ result.args = <<2>>

\* the search signal of a call: the lower-cased intent contains "search" or is
\* "web", or the lower-cased query contains "find" or "look for"
C6_SearchSignal(c) ==
    \/ c.intent # None /\ Contains(S_search, Lower(c.intent[1]))
    \/ c.intent # None /\ Lower(c.intent[1]) = S_web
    \/ Contains(S_find, Lower(c.query))
    \/ Contains(S_look_for, Lower(c.query))

\* the support signal of a call: the lower-cased intent contains "support", or
\* the lower-cased query contains "refund", "tracking" or "cancel"
C6_SupportSignal(c) ==
    \/ c.intent # None /\ Contains(S_support, Lower(c.intent[1]))
    \/ Contains(S_refund, Lower(c.query))
    \/ Contains(S_tracking, Lower(c.query))
    \/ Contains(S_cancel, Lower(c.query))

\* C6: a supervisor call with priority < 5 is handed to the web search agent
\* when it has a search signal, with or without a support signal, and to the
\* customer care agent otherwise, with or without a support signal.
C6_SearchThenSupport ==
    (call.op = "supervisor" /\ call.priority < 5) =>
        /\ Len(result.calls) >= 1
        /\ C6_SearchSignal(call) => result.calls[1] = "web_search_agent"
        /\ ~C6_SearchSignal(call) => result.calls[1] = "customer_care_agent"

\* a call with a search and a support signal has gone to the web search agent
C6_Witness ==
    /\ call.op = "supervisor"
    /\ call.priority < 5
    /\ C6_SearchSignal(call)
    /\ C6_SupportSignal(call)
    /\ call.query = Q_find_refund
    /\ result.calls[1] = "web_search_agent"

\* a supervisor step of a call routed to the web search agent
C7_SearchRouted ==
    /\ call'.op = "supervisor"
    /\ call'.priority < 5
    /\ C6_SearchSignal(call')

\* the call fails for its engine: nothing is requested, nothing changes
C7_Refused(engine) ==
    /\ result'.kind = "error"
    /\ result'.code = INVALID_PARAMS
    /\ result'.fmt = "Unsupported engine: {engine}"
    /\ result'.args = <<engine>>
    /\ inflight' = inflight
    /\ UNCHANGED <<ESCALATION_DB, NEXT_ESCALATION_ID>>

\* the call searches with duckduckgo: it awaits the request or has returned
C7_Defaulted ==
    /\ result'.kind # "error"
    /\ result'.kind = "awaiting" => inflight' = Append(inflight, call')
    /\ result'.kind = "ok" => result'.args[1] = S_duckduckgo

\* C7 as stated: a call routed to search with an engine hint that is no
\* supported engine name fails with the unsupported-engine error naming it,
\* issues no request and changes neither queue nor counter; with no hint the
\* engine is "duckduckgo" and the call does not fail.
C7_Original ==
    [][C7_SearchRouted =>
          /\ (call'.search_engine # None /\ ~EngineSupported(call'.search_engine[1]))
                => C7_Refused(call'.search_engine[1])
          /\ call'.search_engine = None => C7_Defaulted]_vars

\* C7, amended: the hint that fails is a non-empty string that is no supported
\* engine name; with no hint or an empty hint the engine is "duckduckgo" and
\* the call does not fail.
C7_NonEmptyUnsupportedFails ==
    [][C7_SearchRouted =>
          /\ (Truthy(call'.search_engine) /\ ~EngineSupported(call'.search_engine[1]))
                => C7_Refused(call'.search_engine[1])
          /\ ~Truthy(call'.search_engine) => C7_Defaulted]_vars

\* a search call naming the engine bing has failed on a queue with a ticket
C7_Witness ==
    /\ call.op = "supervisor"
    /\ call.priority < 5
    /\ C6_SearchSignal(call)
    /\ call.search_engine = Some(<<"b","i","n","g">>)
    /\ result.kind = "error"
    /\ result.args = <<(<<"b","i","n","g">>)>>
    /\ Len(ESCALATION_DB) >= 1

\* the answer faq gives for a key
C8_Answer(key) == (CHOOSE n \in 1..Len(faq) : faq[n].k = key)
\* a supervisor call that reaches the customer care agent
C8_ReachesCare(c) ==
    c.op = "supervisor" /\ c.priority < 5 /\ ~C6_SearchSignal(c)

\* C8: the customer care agent answers with the first of refund, tracking,
\* cancel, warranty that occurs in the lower-cased query, wherever the keys
\* stand in the query.
C8_FirstRuleWins ==
    C8_ReachesCare(call) =>
        LET ql == Lower(call.query)
            has(key) == Contains(key, ql)
            answers(key) == result.kind = "ok"
                            /\ result.fmt = "Customer Care: {v}"
                            /\ result.args = <<faq[C8_Answer(key)].v>>
        IN  /\ has(S_refund) => answers(S_refund)
            /\ (~has(S_refund) /\ has(S_tracking)) => answers(S_tracking)
            /\ (~has(S_refund) /\ ~has(S_tracking) /\ has(S_cancel))
                  => answers(S_cancel)
            /\ (~has(S_refund) /\ ~has(S_tracking) /\ ~has(S_cancel)
                  /\ has(S_warranty)) => answers(S_warranty)

\* the query "tracking REFUND" has got the refund answer
C8_Witness ==
    /\ C8_ReachesCare(call)
    /\ call.query = Q_tracking_refund
    /\ result.args = <<"Our refund policy: please request within 14 days">>

\* C9: a query that reaches the customer care agent gets the FAQ answer and no
\* ticket when a key matches, and otherwise exactly one open ticket with the
\* query and priority 3, whatever the priority of the call, and the
\* acknowledgment with that ticket's id.
C9_AnswerOrTicket ==
    [][C8_ReachesCare(call') =>
          LET ql == Lower(call'.query)
              matched == \E key \in {S_refund, S_tracking, S_cancel, S_warranty} :
                            Contains(key, ql)
          IN  /\ result'.kind = "ok"
              /\ matched =>
                    /\ result'.fmt = "Customer Care: {v}"
                    /\ UNCHANGED <<ESCALATION_DB, NEXT_ESCALATION_ID>>
              /\ ~matched =>
                    /\ CreatesTicket(call'.query, 3)
                    /\ result'.fmt = "Customer Care: I've created an escalation (id={id})"
                    /\ result'.args = <<ESCALATION_DB'[Len(ESCALATION_DB')].id>>]_vars

\* a call of priority 1 with no FAQ key has added the second ticket
C9_Witness ==
    /\ C8_ReachesCare(call)
    /\ call.query = Q_hi
    /\ call.priority = 1
    /\ Len(ESCALATION_DB) = 2
    /\ ESCALATION_DB[2].priority = 3
    /\ ESCALATION_DB[2].query = Q_hi
    /\ result.args = <<2>>

\* C15: a supervisor call routed to search with a supported engine returns
\* text whatever the search request comes to: with the one-element
\* <<"<error>Search failed</error>">> as its results when the request raised
\* httpx.HTTPError or answered with a status other than 200, and with the
\* one-element <<"<error>No results found</error>">> when the page of a 200
\* answer holds no anchor whose href starts with "http".
C15_SearchNeverRaises ==
    (call.op = "supervisor" /\ "resp" \in DOMAIN call) =>
        /\ result.kind = "ok"
        /\ result.calls = <<"web_search_agent", "duckduckgo_search_links">>
        /\ (call.resp.exc \/ call.resp.status_code # 200)
              => result.args[3] = <<S_search_failed>>
        /\ (/\ ~call.resp.exc
            /\ call.resp.status_code = 200
            /\ \A k \in 1..Len(call.resp.anchors) :
                  ~StartsWith(call.resp.anchors[k], S_http))
              => result.args[3] = <<S_no_results>>

\* a search with the engine "DDG" whose request raised has returned the
\* failure marker
C15_Witness ==
    /\ call.op = "supervisor"
    /\ "resp" \in DOMAIN call
    /\ call.resp.exc
    /\ call.search_engine # None
    /\ result.kind = "ok"
    /\ result.args[3] = <<S_search_failed>>

\* the route as a function of the four arguments, the engine included
C18_Decision(c) ==
    IF c.priority >= 5 THEN <<"escalate">>
    ELSE IF C6_SearchSignal(c)
         THEN <<"search", IF c.search_engine \in {None, Some(<<>>)}
                          THEN S_duckduckgo ELSE c.search_engine[1]>>
         ELSE <<"support">>

\* the route a call is seen to have taken: the agent invoked first, and the
\* engine named in the text or in the error of a search
C18_Observed ==
    IF result.calls[1] = "_push_escalation" THEN <<"escalate">>
    ELSE IF result.calls[1] = "web_search_agent"
         THEN <<"search", IF result.kind = "awaiting" THEN C18_Decision(call)[2]
                          ELSE result.args[1]>>
         ELSE <<"support">>

\* C18: in every state of the queue the route of a supervisor call (urgent
\* escalation, search with an engine, customer care) is the value of one
\* function of query, intent, priority and engine hint, so two calls with the
\* same four arguments take the same route.
C18_RouteOfArguments ==
    call.op = "supervisor" =>
        /\ Len(result.calls) >= 1
        /\ C18_Observed = C18_Decision(call)

\* the same plain call twice: it has added the second of two tickets with its
\* query, the first one added to an empty queue
C18_Witness ==
    /\ call = SupervisorCall(Q_hi, None, 4, None)
    /\ Len(ESCALATION_DB) = 2
    /\ \A k \in 1..2 : /\ ESCALATION_DB[k].query = Q_hi
                       /\ ESCALATION_DB[k].priority = 3
    /\ result.fmt = "Customer Care: I've created an escalation (id={id})"
    /\ result.args = <<2>>

---------------------------------------------------------------------------
(* Claims about fetch_url, summarize_url and the search, under SpecFetch *)

\* the body Fetch.fetch_url hands to summarize_url for the page of a call
C13_Body(c) ==
    IF Contains(S_text_html, c.resp.content_type)
    THEN IF c.resp.readable = None THEN S_simplify_failed ELSE c.resp.readable[1]
    ELSE c.resp.text

\* C13 as stated: the text summarize_url returns for n sentences is all the
\* non-empty fragments joined by ". " with nothing appended when there are
\* fewer than n of them, and the first n fragments joined by ". " followed by
\* one "." when there are at least n; for every n.
C13_Original ==
    (call.op = "summarize_url" /\ result.kind = "ok") =>
        LET frags == SentencesList(C13_Body(call))
            n     == call.sentences
            out   == result.args[1]
        IN  IF Len(frags) < n
            THEN out = Join(frags, S_sep)
            ELSE out = Join(SubSeq(frags, 1, n), S_sep) \o <<".">>

\* C13: for n >= 0 the text summarize_url returns is all the non-empty
\* fragments joined by ". " with nothing appended when there are fewer than n
\* of them, and the first n fragments joined by ". " followed by one "." when
\* there are at least n.
C13_NonNegativeCount ==
    (call.op = "summarize_url" /\ call.sentences >= 0) => C13_Original

\* two fragments around a newline, cut to the first one
C13_Witness ==
    /\ call.op = "summarize_url"
    /\ call.sentences = 1
    /\ C13_Body(call) = <<"a", ".", "\n", "a">>
    /\ result.kind = "ok"
    /\ result.args[1] = <<"a", ".">>

\* C14: Fetch.fetch_url raises for a transport failure and for a status >= 400
\* and for nothing else; for an HTML response with force_raw false whose
\* extraction finds no content it returns the body
\* "<error>Failed to simplify page</error>" with an empty note; for a
\* response that is not HTML, or with force_raw true, it returns the text of
\* the response as it is, with a non-empty note that holds the content type.
C14_HardSoftSplit ==
    (call.op = "fetch_url" /\ result.kind # "awaiting") =>
        LET p    == call.resp
            hard == p.exc \/ p.status_code >= 400
            html == Contains(S_text_html, p.content_type)
        IN  /\ hard => result.kind = "error" /\ result.code = INTERNAL_ERROR
            /\ ~hard => result.kind = "ok"
            /\ (~hard /\ html /\ ~call.force_raw /\ p.readable = None)
                  => result.args = <<S_simplify_failed, <<>>>>
            /\ (~hard /\ (~html \/ call.force_raw))
                  => /\ result.args[1] = p.text
                     /\ result.args[2] # <<>>
                     /\ Contains(p.content_type, result.args[2])

\* an HTML page with a charset in its content type and nothing to extract
\* has come back as the marker with an empty note
C14_Witness ==
    /\ call.op = "fetch_url"
    /\ call.resp.status_code = 399
    /\ call.resp.content_type = CT_html_charset
    /\ call.resp.readable = None
    /\ ~call.force_raw
    /\ result.kind = "ok"
    /\ result.args = <<S_simplify_failed, <<>>>>

\* the fetch of the call's page raises
C16_FetchFails(c) == c.resp.exc \/ c.resp.status_code >= 400

\* C16 as stated: summarize_url raises exactly when its fetch raises, so a
\* page whose extraction gave the marker still has a text returned.
C16_Original ==
    (call.op = "summarize_url" /\ result.kind # "awaiting") =>
        (result.kind = "error" <=> C16_FetchFails(call))

\* C16: summarize_url raises exactly when its fetch raises or the body
\* fetched starts with "<error>", the marker of a failed extraction included;
\* in the second case the error is INTERNAL_ERROR "Failed to fetch content.".
C16_RaisesOnErrorBody ==
    (call.op = "summarize_url" /\ result.kind # "awaiting") =>
        /\ result.kind = "error"
              <=> (C16_FetchFails(call) \/ StartsWith(C13_Body(call), S_error_tag))
        /\ (~C16_FetchFails(call) /\ StartsWith(C13_Body(call), S_error_tag))
              => /\ result.code = INTERNAL_ERROR
                 /\ result.fmt = "Failed to fetch content."

\* a page fetched with status 200 whose extraction gave the marker has made
\* summarize_url raise
C16_Witness ==
    /\ call.op = "summarize_url"
    /\ call.resp.status_code = 200
    /\ ~call.resp.exc
    /\ C13_Body(call) = S_simplify_failed
    /\ result.kind = "error"
    /\ result.fmt = "Failed to fetch content."

\* the hrefs of a page that start with "http", in page order
C17_HttpLinks(anchors) == SelectSeq(anchors, LAMBDA a : StartsWith(a, S_http))

=============================================================================
